---- MODULE Spec2Model ----
(***************************************************************************)
(* Zone / ZoneManager of ui/status.py: value-change detection, per-value   *)
(* image caching, the sticky dirty flags and the grid layout of show().    *)
(* show() is modelled statement group by statement group: `pc` is the      *)
(* position inside ZoneManager.__init__ / show(), (ri, ci) the loop        *)
(* indexes.  The value and image callbacks are the environment: each       *)
(* invocation draws its result from a small set.                           *)
(* ThreadSpec runs Zone.refresh() on two threads statement by statement;   *)
(* LockSpec runs the wrapper of ui/utils.py check_value_lock on two        *)
(* threads.                                                                *)
(* ChronoSpec runs the Chronometer of ui/utils.py over a discrete clock.    *)
(***************************************************************************)
EXTENDS Integers, Sequences, FiniteSets, TLC

\* ------------------------------------------------------------------ bounds
\* Bound on the number of image_cb invocations, all Zones together (the value
\* callbacks stop producing values that need a new image once it is reached).
MaxCalls == 4

\* Bound on the number of refresh() calls each thread makes on the shared Zone.
MaxThreadCalls == 2

\* Bound on the discrete clock time() the Chronometer reads.
MaxTime == 4

\* ------------------------------------------------------------ value domains
\* Python's None as a zone value, and the other values a value_cb returns.
None == "None"
Values == {None, "a", "b"}

\* Python's None where the code expects a size (get_element_height/width
\* return None for cells without a size).  Sizes are non-negative, and in
\* Python 2 None orders below every number, as NoneSize does here.
NoneSize == 0 - 1

\* The zone collection handed to ZoneManager, in dict iteration order.
ZoneOrder == <<"z1", "z2">>
Zones == {ZoneOrder[k] : k \in 1..Len(ZoneOrder)}

\* Zone.image before any image was generated (class attribute image = None).
NoneImage == [val |-> "unset", id |-> 0]

\* The image callback: a deterministic rendering of the value; `n` is the
\* identity of the returned object (the n-th object this callback made).
image_cb(v, n) == [val |-> v, id |-> n]

\* image.height / image.width of what image_cb draws for each value.
ImageHeight(img) == CASE img.val = None -> 1 [] img.val = "a" -> 2 [] OTHER -> 0
ImageWidth(img) == CASE img.val = None -> 1 [] img.val = "a" -> 2 [] OTHER -> 3

\* --------------------------------------------------------------- markup
ZoneCell(k) == [kind |-> "str", key |-> k, size |-> 0]
Filler == [kind |-> "str", key |-> "...", size |-> 0]
UnknownKey == [kind |-> "str", key |-> "ZZZ", size |-> 0]
ZoneSpacer(n) == [kind |-> "spacer", key |-> "", size |-> n]
VerticalZoneSpacer(n) == [kind |-> "vspacer", key |-> "", size |-> n]

\* The markups and displays the constructor is given.
Markups ==
  { << <<ZoneCell("z1"), Filler, ZoneCell("z2")>>, <<Filler>>, <<VerticalZoneSpacer(1)>> >>,
    << <<ZoneCell("z1"), ZoneSpacer(1), ZoneCell("z1")>>, <<ZoneCell("z2")>> >>,
    << <<ZoneCell("z1"), UnknownKey>>, <<VerticalZoneSpacer(0)>>, <<Filler>> >>,
    << <<VerticalZoneSpacer(1), ZoneCell("z2"), Filler>> >> }
Displays == {[width |-> 8, height |-> 6], [width |-> 3, height |-> 3]}

VARIABLES
  value, prev_value, image, cache, caching,  \* Zone fields, per zone key
  made,                     \* per zone: number of image_cb invocations so far
  markup, o,                \* ZoneManager.markup, the output device (width, height)
  zones_that_need_refresh,  \* ZoneManager.zones_that_need_refresh (a dict)
  pc, ri, ci,               \* position in __init__ / show(), loop indexes
  row_heights, item_widths, x, y,   \* locals of show()
  pasted,                   \* Canvas.paste calls of the current show(), in order
  canvas,                   \* per zone: its most recent Canvas.paste (image, position)
  outcome,                  \* how the last show() ended: "returned" or the exception
  shows,                    \* 0 before the first show(), 1 during/after it, 2 later
  warned,                   \* cells the current show() logged an "unknown" warning for
  refresh_calls,            \* per zone: refresh() calls the current show() has made
  lastRefresh,              \* the last Zone.refresh() call: inputs and result
  thr_pc, thr_new, thr_image,   \* per thread in refresh(): position, new_value, image
  thr_calls,                \* per thread: refresh() calls started so far
  overlapped,               \* has a refresh() started while another was running
  value_lock,               \* self.value_lock: the thread holding it, or "free"
  locked_name,              \* self.__locked_name__
  lck_pc, lck_func,         \* per thread in check_value_lock's wrapper: position, func
  now,                      \* time(): the clock Ticker reads
  chr_active, chr_elapsed,  \* Chronometer.__active, Chronometer.__elapsed
  last_call,                \* Ticker.__last_call of the Chronometer's ticker
  active_time,              \* clock time passed while active since the last reset
  measured                  \* active_time as of the last update() that measured

zoneVars == <<value, prev_value, image, cache, caching, made>>
layoutVars == <<row_heights, item_widths, x, y>>
vars == <<value, prev_value, image, cache, caching, made, markup, o,
          zones_that_need_refresh, pc, ri, ci, row_heights, item_widths, x, y,
          pasted, canvas, outcome, shows, warned, refresh_calls, lastRefresh,
          thr_pc, thr_new, thr_image, thr_calls, overlapped,
          value_lock, locked_name, lck_pc, lck_func,
          now, chr_active, chr_elapsed, last_call, active_time, measured>>
managerVars == <<markup, o, zones_that_need_refresh, pc, ri, ci, row_heights,
                 item_widths, x, y, pasted, canvas, outcome, shows, warned,
                 refresh_calls, lastRefresh>>
threadVars == <<thr_pc, thr_new, thr_image, thr_calls, overlapped>>
lockVars == <<value_lock, locked_name, lck_pc, lck_func>>
chronoVars == <<now, chr_active, chr_elapsed, last_call, active_time, measured>>

\* The threads that share one Zone, or one object with wrapped functions.
Threads == {"A", "B"}

RECURSIVE SumSeq(_)
SumSeq(s) == IF s = <<>> THEN 0 ELSE Head(s) + SumSeq(Tail(s))

\* ----------------------------------------------------------------- Zone
NoRefresh == [zone |-> "", ctx |-> "", old |-> None, new |-> None, ret |-> "none", invoked |-> 0]

AlwaysChanged(new_value, old_value) == TRUE

\* Zone.needs_refresh: the comparison of the callback's result with self.value.
ValueChanged(new_value, old_value) == new_value # old_value

PrevAfterChangeNew(old_value, new_value) == new_value

\* Zone.needs_refresh line 47: self.prev_value = self.value, before the new value
\* is stored.
PrevAfterChange(old_value, new_value) == old_value

UsesCacheAlways(z) == TRUE

\* Zone.update_image: `if self.caching`, the test before the lookup and the store.
UsesCache(z) == caching[z]

NeverCacheHit(z, v) == FALSE

\* Zone.update_image: the cache check.
CacheHit(z, v) == UsesCache(z) /\ v \in DOMAIN cache[z]

CacheStoreEverywhere(z, v, img) == [k \in DOMAIN cache[z] \cup {v} |-> img]

\* Zone.update_image: storing the generated image when caching.
CacheStore(z, v, img) ==
  IF UsesCache(z) THEN [k \in DOMAIN cache[z] \cup {v} |-> IF k = v THEN img ELSE cache[z][k]]
  ELSE cache[z]

\* The values value_cb may return in this call: any, as long as the call bound on
\* image_cb leaves room for the image a changed value needs.
ValueChoices(z) ==
  {v \in Values : \/ v = value[z]
                  \/ CacheHit(z, v)
                  \/ SumSeq([k \in DOMAIN ZoneOrder |-> made[ZoneOrder[k]]]) < MaxCalls}

\* Zone.refresh() on zone z, called from `ctx`; value_cb returns new_value and
\* image_cb, if it is invoked, raises iff `raises`.  The result is in
\* lastRefresh'.ret: "True", "False", or "raised" when image_cb's exception propagates.
refresh(z, ctx, new_value, raises) ==
  IF ValueChanged(new_value, value[z])
  THEN /\ prev_value' = [prev_value EXCEPT ![z] = PrevAfterChange(value[z], new_value)]
       /\ value' = [value EXCEPT ![z] = new_value]
       /\ IF CacheHit(z, new_value)
          THEN /\ image' = [image EXCEPT ![z] = cache[z][new_value]]
               /\ UNCHANGED <<cache, made>>
               /\ lastRefresh' = [zone |-> z, ctx |-> ctx, old |-> value[z],
                                  new |-> new_value, ret |-> "True", invoked |-> 0]
          ELSE /\ made' = [made EXCEPT ![z] = @ + 1]
               /\ IF raises
                  THEN /\ UNCHANGED <<image, cache>>
                       /\ lastRefresh' = [zone |-> z, ctx |-> ctx, old |-> value[z],
                                          new |-> new_value, ret |-> "raised", invoked |-> 1]
                  ELSE /\ image' = [image EXCEPT ![z] = image_cb(new_value, made[z] + 1)]
                       /\ cache' = [cache EXCEPT ![z] =
                                      CacheStore(z, new_value, image_cb(new_value, made[z] + 1))]
                       /\ lastRefresh' = [zone |-> z, ctx |-> ctx, old |-> value[z],
                                          new |-> new_value, ret |-> "True", invoked |-> 1]
  ELSE /\ UNCHANGED <<value, prev_value, image, cache, made>>
       /\ lastRefresh' = [zone |-> z, ctx |-> ctx, old |-> value[z],
                          new |-> new_value, ret |-> "False", invoked |-> 0]

\* The canvas before anything was pasted for a zone.
NoPaste == [image |-> NoneImage, x |-> 0, y |-> 0]

\* No thread is inside refresh().
ThreadsIdle ==
  /\ thr_pc = [t \in Threads |-> "idle"]
  /\ thr_new = [t \in Threads |-> None]
  /\ thr_image = [t \in Threads |-> NoneImage]
  /\ thr_calls = [t \in Threads |-> 0]
  /\ overlapped = FALSE

\* An object with `value_lock` free and `__locked_name__ = None`, no thread inside
\* a wrapped function.
LockFree ==
  /\ value_lock = "free"
  /\ locked_name = None
  /\ lck_pc = [t \in Threads |-> "idle"]
  /\ lck_func = [t \in Threads |-> None]

\* Chronometer.__init__ (line 129-132) with its Ticker (line 197-199), at time 0.
ChronoNew ==
  /\ now = 0
  /\ chr_active = FALSE
  /\ chr_elapsed = 0
  /\ last_call = 0
  /\ active_time = 0
  /\ measured = 0

\* ---------------------------------------------------------- construction
\* Freshly constructed Zones (class attributes value = image = prev_value = None,
\* an empty cache) and the arguments of the ZoneManager about to be built.
Init ==
  /\ value = [z \in Zones |-> None]
  /\ prev_value = [z \in Zones |-> None]
  /\ image = [z \in Zones |-> NoneImage]
  /\ cache = [z \in Zones |-> <<>>]
  /\ caching \in {[z \in Zones |-> z = "z1"], [z \in Zones |-> z = "z2"]}
  /\ made = [z \in Zones |-> 0]
  /\ markup \in Markups
  /\ o \in Displays
  /\ zones_that_need_refresh = <<>>
  /\ pc = "refresh_on_start"
  /\ ri = 1
  /\ ci = 1
  /\ row_heights = <<>>
  /\ item_widths = <<>>
  /\ x = 0
  /\ y = 0
  /\ pasted = <<>>
  /\ canvas = [z \in Zones |-> NoPaste]
  /\ outcome = "none"
  /\ shows = 0
  /\ warned = {}
  /\ refresh_calls = [z \in Zones |-> 0]
  /\ lastRefresh = NoRefresh
  /\ ThreadsIdle
  /\ LockFree
  /\ ChronoNew

\* ZoneManager.refresh_on_start, one iteration: refresh the zone and mark it dirty.
\* An exception of image_cb propagates out of the constructor: no manager exists.
RefreshOnStart ==
  /\ pc = "refresh_on_start"
  /\ ci <= Len(ZoneOrder)
  /\ \E new_value \in ValueChoices(ZoneOrder[ci]), raises \in BOOLEAN :
       /\ refresh(ZoneOrder[ci], "init", new_value, raises)
       /\ IF lastRefresh'.ret = "raised"
          THEN /\ pc' = "no_manager"
               /\ UNCHANGED <<zones_that_need_refresh, ci>>
          ELSE /\ zones_that_need_refresh' =
                    [k \in DOMAIN zones_that_need_refresh \cup {ZoneOrder[ci]} |-> TRUE]
               /\ ci' = IF ci = Len(ZoneOrder) THEN 1 ELSE ci + 1
               /\ pc' = IF ci = Len(ZoneOrder) THEN "idle" ELSE "refresh_on_start"
  /\ UNCHANGED <<caching, markup, o, ri, row_heights, item_widths, x, y, pasted,
                 canvas, outcome, shows, warned, refresh_calls>>
  /\ UNCHANGED <<threadVars, lockVars, chronoVars>>

\* -------------------------------------------------------------- show()
IsZone(item) == item.kind = "str" /\ item.key \in Zones

\* `all([char == "." for char in item])` for the string cells used here.
AllDots(item) == item.key \in {"", ".", "..", "..."}

MarkDirtyOverwrite(flag, has_refreshed) == has_refreshed

NeedsPasteAlways(item) == TRUE

\* show() line 121-122: the dirty flag after a refresh that returned has_refreshed.
MarkDirty(flag, has_refreshed) == IF has_refreshed /\ ~flag THEN TRUE ELSE flag

\* ------------------------------------------------------------- layout
\* max() of a non-empty list of sizes (None below every number).
MaxOf(s) == CHOOSE m \in {s[k] : k \in DOMAIN s} : \A k \in DOMAIN s : s[k] <= m

\* filter(None, sizes): the entries that are neither None nor 0.
FilterNone(s) == SelectSeq(s, LAMBDA n : n # NoneSize /\ n # 0)

\* sizes.count(None)
CountNone(s) == Len(SelectSeq(s, LAMBDA n : n = NoneSize))

\* ZoneManager.get_element_height; a zone's image must have a .height.
get_element_height(element) ==
  IF IsZone(element) THEN ImageHeight(image[element.key])
  ELSE IF element.kind = "vspacer" THEN element.size
  ELSE NoneSize

\* ZoneManager.get_element_width
get_element_width(element) ==
  IF IsZone(element) THEN ImageWidth(image[element.key])
  ELSE IF element.kind = "spacer" THEN element.size
  ELSE NoneSize

\* get_image() returned None for a zone of the row: `.height` raises AttributeError.
NoImageIn(row) == \E k \in DOMAIN row : IsZone(row[k]) /\ image[row[k].key] = NoneImage

\* show() line 129-133: the height of a row from the heights of its items.
RowHeight(item_heights) ==
  IF FilterNone(item_heights) # <<>> THEN MaxOf(item_heights) ELSE NoneSize

\* show() line 143 / 162: is there space to hand out.
HasSpace(empty_space) == empty_space > 0

SpacingWhole(empty_space, empty_amount) == empty_space

\* show() line 145 / 163: int(empty_space/empty_amount), Python 2 integer division.
Spacing(empty_space, empty_amount) == empty_space \div empty_amount

\* show() line 136-147 and 155-166: the None entries of `sizes` get an equal share
\* of what `total` leaves after the known sizes, if anything is left.
Distribute(sizes, total) ==
  LET empty_amount == CountNone(sizes)
      empty_space == total - SumSeq(FilterNone(sizes))
  IN IF empty_amount = 0 THEN sizes
     ELSE IF HasSpace(empty_space)
          THEN [k \in DOMAIN sizes |->
                  IF sizes[k] = NoneSize THEN Spacing(empty_space, empty_amount) ELSE sizes[k]]
          ELSE sizes

\* An exception leaves show(): the caller has the manager back, the locals are gone.
Raise(exception) ==
  /\ pc' = "idle"
  /\ outcome' = exception
  /\ ri' = 1
  /\ ci' = 1
  /\ row_heights' = <<>>
  /\ item_widths' = <<>>
  /\ x' = 0
  /\ y' = 0

\* show() is called: row_heights = [] and the first loop starts.
ShowCall ==
  /\ pc = "idle"
  /\ pc' = "scan"
  /\ ri' = 1
  /\ ci' = 1
  /\ row_heights' = <<>>
  /\ pasted' = <<>>
  /\ outcome' = "running"
  /\ UNCHANGED canvas
  /\ shows' = IF shows < 2 THEN shows + 1 ELSE shows
  /\ warned' = {}
  /\ refresh_calls' = [z \in Zones |-> 0]
  /\ UNCHANGED <<zoneVars, markup, o, zones_that_need_refresh, item_widths, x, y, lastRefresh>>
  /\ UNCHANGED <<threadVars, lockVars, chronoVars>>

\* After the last cell of a row the row's height is computed; else the next cell.
ScanAdvance ==
  IF ci = Len(markup[ri]) THEN pc' = "row_height" /\ ci' = ci
  ELSE pc' = "scan" /\ ci' = ci + 1

\* First loop of show(), a cell naming a zone: refresh it and accumulate the flag.
ScanZone ==
  /\ pc = "scan"
  /\ IsZone(markup[ri][ci])
  /\ LET item == markup[ri][ci].key IN
     \E new_value \in ValueChoices(item), raises \in BOOLEAN :
       /\ refresh(item, "show", new_value, raises)
       /\ IF lastRefresh'.ret = "raised"
          THEN /\ Raise("image_cb raised")
               /\ UNCHANGED zones_that_need_refresh
          ELSE /\ zones_that_need_refresh' =
                    [zones_that_need_refresh EXCEPT ![item] =
                       MarkDirty(@, lastRefresh'.ret = "True")]
               /\ ScanAdvance
               /\ UNCHANGED <<ri, row_heights, item_widths, x, y, outcome>>
  /\ refresh_calls' = [refresh_calls EXCEPT ![markup[ri][ci].key] = @ + 1]
  /\ UNCHANGED <<caching, markup, o, pasted, canvas, shows, warned>>
  /\ UNCHANGED <<threadVars, lockVars, chronoVars>>

\* show() line 124-126: a string cell that is no zone key and not all dots is
\* reported with logger.warning.
Warns(item) == item.kind = "str" /\ ~AllDots(item)

\* First loop of show(), any other cell: a warning for an unknown key, else nothing.
ScanOther ==
  /\ pc = "scan"
  /\ ~IsZone(markup[ri][ci])
  /\ warned' = IF Warns(markup[ri][ci]) THEN warned \cup {<<ri, ci>>} ELSE warned
  /\ ScanAdvance
  /\ UNCHANGED <<zoneVars, markup, o, zones_that_need_refresh, ri, row_heights,
                 item_widths, x, y, pasted, canvas, outcome, shows, refresh_calls,
                 lastRefresh>>
  /\ UNCHANGED <<threadVars, lockVars, chronoVars>>

\* show() line 129-134: the row's height, after its cells were scanned.
RowHeightStep ==
  /\ pc = "row_height"
  /\ IF NoImageIn(markup[ri])
     THEN Raise("AttributeError")
     ELSE /\ row_heights' = Append(row_heights,
                RowHeight([k \in DOMAIN markup[ri] |-> get_element_height(markup[ri][k])]))
          /\ IF ri = Len(markup)
             THEN pc' = "row_spacing" /\ ri' = ri
             ELSE pc' = "scan" /\ ri' = ri + 1
          /\ ci' = 1
          /\ UNCHANGED <<item_widths, x, y, outcome>>
  /\ UNCHANGED <<zoneVars, markup, o, zones_that_need_refresh, pasted, canvas, shows, warned, refresh_calls, lastRefresh>>
  /\ UNCHANGED <<threadVars, lockVars, chronoVars>>

\* show() line 135-149: vertical spacing between rows, then y = 0.
RowSpacing ==
  /\ pc = "row_spacing"
  /\ row_heights' = Distribute(row_heights, o.height)
  /\ y' = 0
  /\ ri' = 1
  /\ pc' = "widths"
  /\ UNCHANGED <<zoneVars, markup, o, zones_that_need_refresh, ci, item_widths, x,
                 pasted, canvas, outcome, shows, warned, refresh_calls, lastRefresh>>
  /\ UNCHANGED <<threadVars, lockVars, chronoVars>>

\* show() line 150-166: x = 0 and the widths of the row's items.
Widths ==
  /\ pc = "widths"
  /\ IF NoImageIn(markup[ri])
     THEN Raise("AttributeError")
     ELSE /\ x' = 0
          /\ item_widths' =
               Distribute([k \in DOMAIN markup[ri] |-> get_element_width(markup[ri][k])],
                          o.width)
          /\ ci' = 1
          /\ pc' = "paste"
          /\ UNCHANGED <<ri, row_heights, y, outcome>>
  /\ UNCHANGED <<zoneVars, markup, o, zones_that_need_refresh, pasted, canvas, shows, warned, refresh_calls,
                 lastRefresh>>
  /\ UNCHANGED <<threadVars, lockVars, chronoVars>>

CursorAfterPainted(cursor, width, painted) == IF painted THEN cursor + width ELSE cursor

\* show() line 170 / 176: x += width, whether or not the cell was painted.
CursorAfter(cursor, width, painted) == cursor + width

\* show() line 173: is the zone's image pasted.
NeedsPaste(item) == zones_that_need_refresh[item]

PasteAdvance ==
  IF ci = Len(markup[ri]) THEN pc' = "end_row" /\ ci' = ci
  ELSE pc' = "paste" /\ ci' = ci + 1

\* show() line 167-176 for a zone cell: paste if dirty, clear the flag, advance x.
PasteZone ==
  /\ pc = "paste"
  /\ IsZone(markup[ri][ci])
  /\ LET item == markup[ri][ci].key IN
     IF NeedsPaste(item)
     THEN /\ pasted' = Append(pasted, [row |-> ri, col |-> ci, zone |-> item,
                                       image |-> image[item], x |-> x, y |-> y])
          /\ canvas' = [canvas EXCEPT ![item] = [image |-> image[item], x |-> x, y |-> y]]
          /\ zones_that_need_refresh' = [zones_that_need_refresh EXCEPT ![item] = FALSE]
     ELSE UNCHANGED <<pasted, canvas, zones_that_need_refresh>>
  /\ x' = CursorAfter(x, item_widths[ci], NeedsPaste(markup[ri][ci].key))
  /\ PasteAdvance
  /\ UNCHANGED <<zoneVars, markup, o, ri, row_heights, item_widths, y, outcome, shows, warned, refresh_calls,
                 lastRefresh>>
  /\ UNCHANGED <<threadVars, lockVars, chronoVars>>

\* show() line 169-171 for any other cell: x += width, a TypeError when width is None.
PasteOther ==
  /\ pc = "paste"
  /\ ~IsZone(markup[ri][ci])
  /\ IF item_widths[ci] = NoneSize
     THEN Raise("TypeError")
     ELSE /\ x' = CursorAfter(x, item_widths[ci], FALSE)
          /\ PasteAdvance
          /\ UNCHANGED <<ri, row_heights, item_widths, y, outcome>>
  /\ UNCHANGED <<zoneVars, markup, o, zones_that_need_refresh, pasted, canvas, shows, warned, refresh_calls, lastRefresh>>
  /\ UNCHANGED <<threadVars, lockVars, chronoVars>>

\* show() line 177: y += row_height, a TypeError when the row's height is None.
EndRow ==
  /\ pc = "end_row"
  /\ IF row_heights[ri] = NoneSize
     THEN Raise("TypeError")
     ELSE /\ y' = y + row_heights[ri]
          /\ IF ri = Len(markup)
             THEN pc' = "display" /\ ri' = ri
             ELSE pc' = "widths" /\ ri' = ri + 1
          /\ UNCHANGED <<ci, row_heights, item_widths, x, outcome>>
  /\ UNCHANGED <<zoneVars, markup, o, zones_that_need_refresh, pasted, canvas, shows, warned, refresh_calls, lastRefresh>>
  /\ UNCHANGED <<threadVars, lockVars, chronoVars>>

\* show() line 178: self.c.display(), and show() returns.
Display ==
  /\ pc = "display"
  /\ pc' = "idle"
  /\ outcome' = "returned"
  /\ ri' = 1
  /\ ci' = 1
  /\ row_heights' = <<>>
  /\ item_widths' = <<>>
  /\ x' = 0
  /\ y' = 0
  /\ UNCHANGED <<zoneVars, markup, o, zones_that_need_refresh, pasted, canvas, shows, warned, refresh_calls, lastRefresh>>
  /\ UNCHANGED <<threadVars, lockVars, chronoVars>>

\* ------------------------------------------- refresh() from two threads
\* Two threads call refresh() on one caching Zone that no ZoneManager owns.  Zone
\* has no lock, so the threads interleave between the statements of
\* needs_refresh() and update_image(); every statement reads self.value afresh.
SharedZone == "z1"

ThreadInit ==
  /\ value = [z \in Zones |-> None]
  /\ prev_value = [z \in Zones |-> None]
  /\ image = [z \in Zones |-> NoneImage]
  /\ cache = [z \in Zones |-> <<>>]
  /\ caching = [z \in Zones |-> z = SharedZone]
  /\ made = [z \in Zones |-> 0]
  /\ markup = <<>>
  /\ o = CHOOSE d \in Displays : TRUE
  /\ zones_that_need_refresh = <<>>
  /\ pc = "no_manager"
  /\ ri = 1
  /\ ci = 1
  /\ row_heights = <<>>
  /\ item_widths = <<>>
  /\ x = 0
  /\ y = 0
  /\ pasted = <<>>
  /\ canvas = [z \in Zones |-> NoPaste]
  /\ outcome = "none"
  /\ shows = 0
  /\ warned = {}
  /\ refresh_calls = [z \in Zones |-> 0]
  /\ lastRefresh = NoRefresh
  /\ ThreadsIdle
  /\ LockFree
  /\ ChronoNew

ThrGoto(t, label) == thr_pc' = [thr_pc EXCEPT ![t] = label]

\* needs_refresh line 40-45: new_value = self.value_cb() and the comparison with
\* self.value; on equality refresh() returns False.
ThrNeedsRefresh(t) ==
  /\ thr_pc[t] = "idle"
  /\ thr_calls[t] < MaxThreadCalls
  /\ thr_calls' = [thr_calls EXCEPT ![t] = @ + 1]
  /\ overlapped' = (overlapped \/ \E u \in Threads \ {t} : thr_pc[u] # "idle")
  /\ \E new_value \in Values :
       IF ValueChanged(new_value, value[SharedZone])
       THEN thr_new' = [thr_new EXCEPT ![t] = new_value] /\ ThrGoto(t, "set_prev")
       ELSE UNCHANGED <<thr_new, thr_pc>>
  /\ UNCHANGED <<zoneVars, managerVars, thr_image, lockVars, chronoVars>>

\* needs_refresh line 47: self.prev_value = self.value
ThrSetPrev(t) ==
  /\ thr_pc[t] = "set_prev"
  /\ prev_value' = [prev_value EXCEPT
                      ![SharedZone] = PrevAfterChange(value[SharedZone], thr_new[t])]
  /\ ThrGoto(t, "set_value")
  /\ UNCHANGED <<value, image, cache, caching, made, managerVars, thr_new, thr_image,
                 thr_calls, overlapped, lockVars, chronoVars>>

\* needs_refresh line 48: self.value = new_value
ThrSetValue(t) ==
  /\ thr_pc[t] = "set_value"
  /\ value' = [value EXCEPT ![SharedZone] = thr_new[t]]
  /\ ThrGoto(t, "check_cache")
  /\ UNCHANGED <<prev_value, image, cache, caching, made, managerVars, thr_new,
                 thr_image, thr_calls, overlapped, lockVars, chronoVars>>

\* update_image line 54-55: if self.caching: if self.value in self.cache
ThrCheckCache(t) ==
  /\ thr_pc[t] = "check_cache"
  /\ ThrGoto(t, IF CacheHit(SharedZone, value[SharedZone]) THEN "read_cache" ELSE "image_cb")
  /\ UNCHANGED <<zoneVars, managerVars, thr_new, thr_image, thr_calls, overlapped,
                 lockVars, chronoVars>>

\* update_image line 56: return self.cache[self.value]; a KeyError when self.value
\* has changed to a value with no entry since the test (refresh() is left).
ThrReadCache(t) ==
  /\ thr_pc[t] = "read_cache"
  /\ IF value[SharedZone] \in DOMAIN cache[SharedZone]
     THEN /\ thr_image' = [thr_image EXCEPT ![t] = cache[SharedZone][value[SharedZone]]]
          /\ ThrGoto(t, "set_image")
     ELSE /\ ThrGoto(t, "idle")
          /\ UNCHANGED thr_image
  /\ UNCHANGED <<zoneVars, managerVars, thr_new, thr_calls, overlapped, lockVars, chronoVars>>

\* update_image line 58-61: image = self.image_cb(self.value)
ThrImageCb(t) ==
  /\ thr_pc[t] = "image_cb"
  /\ made' = [made EXCEPT ![SharedZone] = @ + 1]
  /\ thr_image' = [thr_image EXCEPT
                     ![t] = image_cb(value[SharedZone], made[SharedZone] + 1)]
  /\ ThrGoto(t, IF UsesCache(SharedZone) THEN "store" ELSE "set_image")
  /\ UNCHANGED <<value, prev_value, image, cache, caching, managerVars, thr_new,
                 thr_calls, overlapped, lockVars, chronoVars>>

\* update_image line 63-64: self.cache[self.value] = image
ThrStore(t) ==
  /\ thr_pc[t] = "store"
  /\ cache' = [cache EXCEPT
                 ![SharedZone] = CacheStore(SharedZone, value[SharedZone], thr_image[t])]
  /\ ThrGoto(t, "set_image")
  /\ UNCHANGED <<value, prev_value, image, caching, made, managerVars, thr_new,
                 thr_image, thr_calls, overlapped, lockVars, chronoVars>>

\* refresh line 72-73: self.image = <what update_image returned>; return True
ThrSetImage(t) ==
  /\ thr_pc[t] = "set_image"
  /\ image' = [image EXCEPT ![SharedZone] = thr_image[t]]
  /\ thr_image' = [thr_image EXCEPT ![t] = NoneImage]
  /\ ThrGoto(t, "idle")
  /\ UNCHANGED <<value, prev_value, cache, caching, made, managerVars, thr_new,
                 thr_calls, overlapped, lockVars, chronoVars>>

ThreadNext ==
  \E t \in Threads :
    \/ ThrNeedsRefresh(t)
    \/ ThrSetPrev(t)
    \/ ThrSetValue(t)
    \/ ThrCheckCache(t)
    \/ ThrReadCache(t)
    \/ ThrImageCb(t)
    \/ ThrStore(t)
    \/ ThrSetImage(t)

ThreadSpec == ThreadInit /\ [][ThreadNext]_vars

\* ------------------------------------------------ check_value_lock
\* Two threads call functions of one object that check_value_lock wraps; each
\* statement of the wrapper is a step.  (The wrapper's logger calls change no
\* state: the `__locked_name__ is not None` test only selects a warning.)
WrappedFunctions == {"f", "g"}

LockInit ==
  /\ value = [z \in Zones |-> None]
  /\ prev_value = [z \in Zones |-> None]
  /\ image = [z \in Zones |-> NoneImage]
  /\ cache = [z \in Zones |-> <<>>]
  /\ caching = [z \in Zones |-> z = SharedZone]
  /\ made = [z \in Zones |-> 0]
  /\ markup = <<>>
  /\ o = CHOOSE d \in Displays : TRUE
  /\ zones_that_need_refresh = <<>>
  /\ pc = "no_manager"
  /\ ri = 1
  /\ ci = 1
  /\ row_heights = <<>>
  /\ item_widths = <<>>
  /\ x = 0
  /\ y = 0
  /\ pasted = <<>>
  /\ canvas = [z \in Zones |-> NoPaste]
  /\ outcome = "none"
  /\ shows = 0
  /\ warned = {}
  /\ refresh_calls = [z \in Zones |-> 0]
  /\ lastRefresh = NoRefresh
  /\ ThreadsIdle
  /\ LockFree
  /\ ChronoNew

LckGoto(t, label) == lck_pc' = [lck_pc EXCEPT ![t] = label]

\* wrapper line 80-89: a thread calls wrapped function func; assert, and the
\* warning if __locked_name__ is not None.
LckCall(t) ==
  /\ lck_pc[t] = "idle"
  /\ \E func \in WrappedFunctions : lck_func' = [lck_func EXCEPT ![t] = func]
  /\ LckGoto(t, "acquire")
  /\ UNCHANGED <<zoneVars, managerVars, threadVars, chronoVars, value_lock, locked_name>>

\* wrapper line 90: with self.value_lock (blocks while another thread holds it).
LckAcquire(t) ==
  /\ lck_pc[t] = "acquire"
  /\ value_lock = "free"
  /\ value_lock' = t
  /\ LckGoto(t, "set_name")
  /\ UNCHANGED <<zoneVars, managerVars, threadVars, chronoVars, locked_name, lck_func>>

\* wrapper line 91: self.__locked_name__ = func.__name__
LckSetName(t) ==
  /\ lck_pc[t] = "set_name"
  /\ locked_name' = lck_func[t]
  /\ LckGoto(t, "body")
  /\ UNCHANGED <<zoneVars, managerVars, threadVars, chronoVars, value_lock, lck_func>>

\* wrapper line 93: result = func(self, ...): the body returns or raises.
LckBody(t) ==
  /\ lck_pc[t] = "body"
  /\ \E raises \in BOOLEAN : LckGoto(t, IF raises THEN "unwind" ELSE "release")
  /\ UNCHANGED <<zoneVars, managerVars, threadVars, chronoVars, value_lock, locked_name, lck_func>>

\* The end of the with block releases the lock; an exception of the body then
\* leaves the wrapper, line 95 is not reached.
LckRelease(t) ==
  /\ lck_pc[t] \in {"release", "unwind"}
  /\ value_lock' = "free"
  /\ IF lck_pc[t] = "unwind"
     THEN LckGoto(t, "idle") /\ lck_func' = [lck_func EXCEPT ![t] = None]
     ELSE LckGoto(t, "reset_name") /\ UNCHANGED lck_func
  /\ UNCHANGED <<zoneVars, managerVars, threadVars, chronoVars, locked_name>>

\* wrapper line 95-96: self.__locked_name__ = None; return result
LckResetName(t) ==
  /\ lck_pc[t] = "reset_name"
  /\ locked_name' = None
  /\ lck_func' = [lck_func EXCEPT ![t] = None]
  /\ LckGoto(t, "idle")
  /\ UNCHANGED <<zoneVars, managerVars, threadVars, chronoVars, value_lock>>

LockNext ==
  \E t \in Threads :
    \/ LckCall(t)
    \/ LckAcquire(t)
    \/ LckSetName(t)
    \/ LckBody(t)
    \/ LckRelease(t)
    \/ LckResetName(t)

LockSpec == LockInit /\ [][LockNext]_vars

\* ------------------------------------------------------- Chronometer
\* One Chronometer (ui/utils.py) over a discrete clock `now`, used by one thread;
\* sleeping advances the clock.  active_time and measured record what the clock
\* did while the Chronometer was active; the code does not read them.
ChronoInit ==
  /\ value = [z \in Zones |-> None]
  /\ prev_value = [z \in Zones |-> None]
  /\ image = [z \in Zones |-> NoneImage]
  /\ cache = [z \in Zones |-> <<>>]
  /\ caching = [z \in Zones |-> z = SharedZone]
  /\ made = [z \in Zones |-> 0]
  /\ markup = <<>>
  /\ o = CHOOSE d \in Displays : TRUE
  /\ zones_that_need_refresh = <<>>
  /\ pc = "no_manager"
  /\ ri = 1
  /\ ci = 1
  /\ row_heights = <<>>
  /\ item_widths = <<>>
  /\ x = 0
  /\ y = 0
  /\ pasted = <<>>
  /\ canvas = [z \in Zones |-> NoPaste]
  /\ outcome = "none"
  /\ shows = 0
  /\ warned = {}
  /\ refresh_calls = [z \in Zones |-> 0]
  /\ lastRefresh = NoRefresh
  /\ ThreadsIdle
  /\ LockFree
  /\ ChronoNew

otherVars == <<zoneVars, managerVars, threadVars, lockVars>>

\* Ticker.tick line 206-209: the time since the previous tick (the call also sets
\* __last_call = now).
tick == now - last_call

\* sleep(1): the clock advances by one unit.
ChrSleep ==
  /\ now < MaxTime
  /\ now' = now + 1
  /\ active_time' = IF chr_active THEN active_time + 1 ELSE active_time
  /\ UNCHANGED <<chr_active, chr_elapsed, last_call, measured, otherVars>>

\* Chronometer.update line 146-151: nothing when inactive, else elapsed += tick().
ChrUpdate ==
  /\ IF ~chr_active
     THEN UNCHANGED <<chr_elapsed, last_call, measured>>
     ELSE /\ chr_elapsed' = chr_elapsed + tick
          /\ last_call' = now
          /\ measured' = active_time
  /\ UNCHANGED <<now, chr_active, active_time, otherVars>>

\* Chronometer.stop line 153-158: tick(), elapsed = 0, active = False.
ChrStop ==
  /\ last_call' = now
  /\ chr_elapsed' = 0
  /\ chr_active' = FALSE
  /\ active_time' = 0
  /\ measured' = 0
  /\ UNCHANGED <<now, otherVars>>

\* Chronometer.pause line 160-163: active = False, nothing else.
ChrPause ==
  /\ chr_active' = FALSE
  /\ UNCHANGED <<now, chr_elapsed, last_call, active_time, measured, otherVars>>

\* Chronometer.resume line 165-169: tick() (its result is dropped), active = True.
ChrResume ==
  /\ last_call' = now
  /\ chr_active' = TRUE
  /\ UNCHANGED <<now, chr_elapsed, active_time, measured, otherVars>>

\* Chronometer.start line 171-175: stop() then resume().
ChrStart ==
  /\ last_call' = now
  /\ chr_elapsed' = 0
  /\ chr_active' = TRUE
  /\ active_time' = 0
  /\ measured' = 0
  /\ UNCHANGED <<now, otherVars>>

\* Chronometer.toggle line 177-180: pause() if active else resume().
ChrToggle ==
  /\ chr_active' = ~chr_active
  /\ last_call' = IF chr_active THEN last_call ELSE now
  /\ UNCHANGED <<now, chr_elapsed, active_time, measured, otherVars>>

\* Chronometer.restart line 182-185: start().
ChrRestart ==
  /\ last_call' = now
  /\ chr_elapsed' = 0
  /\ chr_active' = TRUE
  /\ active_time' = 0
  /\ measured' = 0
  /\ UNCHANGED <<now, otherVars>>

ChronoNext ==
  \/ ChrSleep
  \/ ChrUpdate
  \/ ChrStop
  \/ ChrPause
  \/ ChrResume
  \/ ChrStart
  \/ ChrToggle
  \/ ChrRestart

ChronoSpec == ChronoInit /\ [][ChronoNext]_vars

\* ---------------------------------------------------------------- claims

\* C1: every refresh() call that returns, returns true iff the value the value
\* callback returned in that call differs from the value stored just before the
\* call, and when it returns true the stored value is the callback's result.  (A
\* call ends without a return value only when a changed value made it invoke an
\* image callback that raised.)
C1_RefreshTrueIffValueDiffers ==
  /\ lastRefresh.ret \in {"True", "False"} =>
       /\ (lastRefresh.ret = "True") <=> (lastRefresh.new # lastRefresh.old)
       /\ lastRefresh.ret = "True" => value[lastRefresh.zone] = lastRefresh.new
       /\ lastRefresh.ret = "False" => value[lastRefresh.zone] = lastRefresh.old
  /\ lastRefresh.ret = "raised" => lastRefresh.new # lastRefresh.old

\* C1 witness: inside show(), a refresh returned true on a change between two
\* values that both came from the callback.
C1_Witness ==
  /\ lastRefresh.ctx = "show"
  /\ lastRefresh.ret = "True"
  /\ lastRefresh.old # None
  /\ lastRefresh.new # None

\* C2: the first refresh() of a newly constructed Zone (the one refresh_on_start
\* makes) returns true whatever the value callback returns, None included.
C2_FirstRefreshReturnsTrue ==
  lastRefresh.ctx = "init" => lastRefresh.ret # "False"

\* C3: once the ZoneManager is constructed, every Zone's retained image is the
\* image the image callback draws for the Zone's current value.
C3_ImageReflectsValue ==
  pc \notin {"refresh_on_start", "no_manager"} =>
    \A z \in Zones : image[z] # NoneImage /\ image[z].val = value[z]

\* C4: for a caching Zone a cache entry, once stored, stays the same object for
\* ever; the image callback is invoked only for a value that has no cache entry
\* (so it generates at most one image per distinct value); and a refresh that lands
\* on a cached value retains that identical cached object.
C4_CachedImageGeneratedOnce ==
  [][\A z \in Zones : caching[z] =>
       /\ \A v \in DOMAIN cache[z] : v \in DOMAIN cache'[z] /\ cache'[z][v] = cache[z][v]
       /\ made'[z] # made[z] => value'[z] \notin DOMAIN cache[z]
       /\ (value'[z] # value[z] /\ value'[z] \in DOMAIN cache[z]) =>
            image'[z] = cache[z][value'[z]]]_vars

\* C4 witness: a caching Zone came back to a value it had rendered before, with
\* another value in between, without invoking the image callback.
C4_Witness ==
  /\ lastRefresh.zone \in Zones
  /\ caching[lastRefresh.zone]
  /\ lastRefresh.ret = "True"
  /\ lastRefresh.invoked = 0
  /\ lastRefresh.old # None
  /\ image[lastRefresh.zone] = cache[lastRefresh.zone][lastRefresh.new]

\* C5: for a Zone without caching, a refresh() call invokes the image callback
\* exactly once when the value changed and not at all when it did not.
C5_NonCachingInvokesOncePerChange ==
  (lastRefresh.zone \in Zones /\ ~caching[lastRefresh.zone]) =>
     /\ lastRefresh.new # lastRefresh.old => lastRefresh.invoked = 1
     /\ lastRefresh.new = lastRefresh.old => lastRefresh.invoked = 0

\* C5 witness: a Zone without caching went "a", "b", "a" and invoked the image
\* callback a third time for the "a" it had rendered before.
C5_Witness ==
  /\ lastRefresh.zone \in Zones
  /\ ~caching[lastRefresh.zone]
  /\ made[lastRefresh.zone] = 3
  /\ lastRefresh.new = "a"
  /\ lastRefresh.old = "b"
  /\ lastRefresh.ret = "True"
  /\ lastRefresh.invoked = 1
  /\ image[lastRefresh.zone] = image_cb("a", 3)

\* C6: a dirty flag that is true goes back to false only in the step of show() that
\* pastes that zone's current image onto the canvas.
C6_DirtyFlagSticky ==
  [][\A z \in DOMAIN zones_that_need_refresh :
       (zones_that_need_refresh[z] /\ ~zones_that_need_refresh'[z]) =>
          /\ pc = "paste"
          /\ pasted' = Append(pasted, [row |-> ri, col |-> ci, zone |-> z,
                                       image |-> image[z], x |-> x, y |-> y])]_vars

\* C6 witness: inside show(), refresh() reported no change for a zone that an
\* earlier cycle had left dirty, and the flag is still set.
C6_Witness ==
  /\ pc \in {"scan", "row_height"}
  /\ shows = 2
  /\ lastRefresh.ctx = "show"
  /\ lastRefresh.ret = "False"
  /\ zones_that_need_refresh[lastRefresh.zone]

\* The zones the markup references.
Referenced ==
  {z \in Zones : \E i \in DOMAIN markup : \E j \in DOMAIN markup[i] : markup[i][j].key = z}

\* C7: redraw requests are never dropped, also across a show() that an image
\* callback made raise: whenever a show() returns, the image last pasted for every
\* zone of the markup is the image of the zone's current value.  (This is the
\* claim's "eventually pasted" in the form a finite run decides: show() returns
\* with every flag clear, so an image not pasted by then is pasted by no later
\* show() for as long as the value stays.)
C7_ChangedValueGetsPasted ==
  (pc = "idle" /\ outcome = "returned") =>
     \A z \in Referenced : canvas[z].image.val = value[z]

\* The cells of the markup that name a zone, as <<row, column>>.
ZoneCells ==
  {c \in UNION {{<<i, j>> : j \in DOMAIN markup[i]} : i \in DOMAIN markup} :
     IsZone(markup[c[1]][c[2]])}

\* C8: construction leaves every zone dirty, and the first show() (unless a
\* callback raises in it) returns having pasted, at every cell that names a zone,
\* that zone's image, none of them the unset image None.
C8_FirstShowPaintsEverything ==
  /\ (pc = "idle" /\ shows = 0) =>
        \A z \in Zones : z \in DOMAIN zones_that_need_refresh /\ zones_that_need_refresh[z]
  /\ (pc = "idle" /\ shows = 1 /\ outcome # "image_cb raised") =>
        /\ outcome = "returned"
        /\ \A c \in ZoneCells : \E k \in DOMAIN pasted :
             /\ pasted[k].row = c[1]
             /\ pasted[k].col = c[2]
             /\ pasted[k].image = image[markup[c[1]][c[2]].key]
             /\ pasted[k].image # NoneImage

\* C9: in show() a zone cell is pasted iff the zone's dirty flag is set when the
\* cell is reached, the paste is of the zone's current image at the cursor and
\* clears the flag, nothing else pastes, and when show() returns the flag of every
\* zone the markup references is false.
C9_PasteIffDirty ==
  [][/\ (pc = "paste" /\ IsZone(markup[ri][ci])) =>
          /\ (pasted' # pasted) <=> zones_that_need_refresh[markup[ri][ci].key]
          /\ pasted' # pasted =>
               pasted' = Append(pasted, [row |-> ri, col |-> ci, zone |-> markup[ri][ci].key,
                                         image |-> image[markup[ri][ci].key],
                                         x |-> x, y |-> y])
          /\ ~zones_that_need_refresh'[markup[ri][ci].key]
     /\ ~(pc = "paste" /\ IsZone(markup[ri][ci])) => (pasted' = pasted \/ pc = "idle")
     /\ (pc' = "idle" /\ outcome' = "returned") =>
          \A z \in Referenced : ~zones_that_need_refresh'[z]]_vars

\* C9 witness: a later show() returned having pasted one zone and skipped a cell of
\* another zone, whose flag was clear.
C9_Witness ==
  /\ pc = "idle"
  /\ outcome = "returned"
  /\ shows = 2
  /\ pasted # <<>>
  /\ \E z \in Referenced : \A k \in DOMAIN pasted : pasted[k].zone # z

\* The claim's reading of a row: the heights of its cells, whether any is known,
\* and the known height (the maximum of the known ones).
ClaimItemHeights(i) == [k \in DOMAIN markup[i] |-> get_element_height(markup[i][k])]
ClaimKnown(i) == \E k \in DOMAIN markup[i] : ClaimItemHeights(i)[k] # NoneSize
ClaimAutoRows == {i \in DOMAIN markup : ~ClaimKnown(i)}
ClaimKnownSum ==
  SumSeq([i \in DOMAIN markup |-> IF ClaimKnown(i) THEN MaxOf(ClaimItemHeights(i)) ELSE 0])

\* C10: with M >= 1 rows of no known height, known heights summing to H and display
\* height D, once the row spacing is done every auto row has floor((D - H) / M),
\* every row with a known height has kept it, and no row height is negative.
\* (Stated for D - H >= 0, where the claim's two halves can both hold.)
C10_RowHeightDistribution ==
  (/\ pc \in {"widths", "paste", "end_row", "display"}
   /\ ClaimAutoRows # {}
   /\ o.height - ClaimKnownSum >= 0) =>
     \A i \in DOMAIN markup :
        /\ row_heights[i] >= 0
        /\ row_heights[i] =
             IF ClaimKnown(i) THEN MaxOf(ClaimItemHeights(i))
             ELSE (o.height - ClaimKnownSum) \div Cardinality(ClaimAutoRows)

\* C11: degenerate geometry never raises: where no space is left to distribute,
\* the auto rows and auto cells have size zero (no None is left among the row
\* heights once the row spacing is done, nor among a row's widths once its column
\* spacing is done) and show() is never left by a TypeError.
C11_DegenerateGeometryClampsToZero ==
  /\ outcome # "TypeError"
  /\ pc \in {"widths", "paste", "end_row", "display"} =>
        \A i \in DOMAIN row_heights : row_heights[i] # NoneSize
  /\ pc \in {"paste", "end_row"} =>
        \A k \in DOMAIN item_widths : item_widths[k] # NoneSize

\* C12: a string cell that is neither a zone key nor all dots is never fatal.  In
\* each show() call the scan of such a cell logs a warning and the scan of an
\* all-dots cell logs none, and stepping the cursor over such a cell in the paste
\* loop raises no exception.
C12_UnknownKeyNeverFatal ==
  [][ /\ (pc = "scan" /\ ~IsZone(markup[ri][ci])) =>
           (<<ri, ci>> \in warned' <=> Warns(markup[ri][ci]))
      /\ (pc = "paste" /\ Warns(markup[ri][ci])) => outcome' # "TypeError" ]_vars

\* C13: the height show() records for a row is the maximum of the known heights of
\* the row's cells whenever a cell has a known height (a known height of 0
\* included), and unknown only when no cell has one.
C13_RowHeightIsMaxOfKnown ==
  [][ (pc = "row_height" /\ pc' # "idle") =>
         row_heights'[ri] = IF ClaimKnown(ri) THEN MaxOf(ClaimItemHeights(ri))
                            ELSE NoneSize ]_vars

\* The claim's reading of the row being pasted: the widths of its cells, the sum K
\* of the known ones and the number A of unknown ones.
ClaimItemWidths == [k \in DOMAIN markup[ri] |-> get_element_width(markup[ri][k])]
ClaimKnownWidths ==
  SumSeq([k \in DOMAIN markup[ri] |->
            IF ClaimItemWidths[k] = NoneSize THEN 0 ELSE ClaimItemWidths[k]])
ClaimAutoCells == {k \in DOMAIN markup[ri] : ClaimItemWidths[k] = NoneSize}

\* C14: in every row with A >= 1 cells of unknown width and known widths summing to
\* K < W (the display width), once the row's widths are computed every auto cell
\* has floor((W - K) / A), every cell of known width has kept it, and the widths of
\* the row sum to at most W.
C14_ColumnWidthDistribution ==
  (/\ pc \in {"paste", "end_row"}
   /\ ClaimAutoCells # {}
   /\ o.width - ClaimKnownWidths > 0) =>
     /\ \A k \in DOMAIN markup[ri] :
          item_widths[k] =
            IF k \in ClaimAutoCells
            THEN (o.width - ClaimKnownWidths) \div Cardinality(ClaimAutoCells)
            ELSE ClaimItemWidths[k]
     /\ SumSeq(item_widths) <= o.width

\* Two auto cells share a leftover width that does not divide evenly.
C14_Witness ==
  /\ pc = "paste"
  /\ Cardinality(ClaimAutoCells) = 2
  /\ o.width - ClaimKnownWidths > 0
  /\ (o.width - ClaimKnownWidths) % 2 = 1
  /\ \E k \in DOMAIN markup[ri] : k \notin ClaimAutoCells /\ item_widths[k] > 0

\* C15: in the paste loop the cursor is at x = the sum of the computed widths of
\* the cells before the current one in its row and y = the sum of the computed
\* heights of the rows above, whether or not those cells were painted, and every
\* paste of the row was made at the cursor of its cell.
C15_PastePosition ==
  pc \in {"paste", "end_row"} =>
     /\ x = SumSeq(SubSeq(item_widths, 1,
                          IF pc = "paste" THEN ci - 1 ELSE Len(item_widths)))
     /\ y = SumSeq(SubSeq(row_heights, 1, ri - 1))
     /\ \A n \in DOMAIN pasted :
          pasted[n].row = ri =>
             /\ pasted[n].x = SumSeq(SubSeq(item_widths, 1, pasted[n].col - 1))
             /\ pasted[n].y = y

\* The zone in the third cell of a row was painted to the right of a zone cell
\* and a filler that were not painted.
C15_Witness ==
  /\ pc \in {"paste", "end_row"}
  /\ \E n \in DOMAIN pasted :
       /\ pasted[n].row = ri
       /\ pasted[n].col = 3
       /\ pasted[n].x > 0
       /\ \A m \in DOMAIN pasted : pasted[m].row = ri => m = n
  /\ IsZone(markup[ri][1])

\* A step that is one refresh() call: an iteration of refresh_on_start, or the scan
\* of a zone cell in show().
RefreshStep ==
  \/ pc = "refresh_on_start"
  \/ pc = "scan" /\ IsZone(markup[ri][ci])

\* C16: a refresh() call whose value callback returns the stored value leaves
\* value, prev_value, image and the cache as they were; a call that detects a
\* change sets prev_value to the value stored just before the call.
C16_NoSideEffectOnEquality ==
  [][ RefreshStep =>
        LET z == lastRefresh'.zone
            new_value == lastRefresh'.new
        IN /\ new_value = value[z] =>
                /\ value' = value
                /\ prev_value' = prev_value
                /\ image' = image
                /\ cache' = cache
           /\ new_value # value[z] =>
                /\ prev_value'[z] = value[z]
                /\ \A other \in Zones \ {z} : prev_value'[other] = prev_value[other]
    ]_vars

\* A refresh has just replaced a value that was not None by a different one.
C16_Witness ==
  /\ lastRefresh.zone \in Zones
  /\ lastRefresh.old \notin {None, lastRefresh.new}
  /\ prev_value[lastRefresh.zone] = lastRefresh.old
  /\ value[lastRefresh.zone] = lastRefresh.new

\* C17: when a show() call has returned, it has called refresh() exactly once on
\* every zone the markup references, however many cells name it, and not at all on
\* the zones the markup does not reference.
C17_RefreshOncePerZonePerShow ==
  (pc = "idle" /\ outcome = "returned") =>
     \A z \in Zones : refresh_calls[z] = IF z \in Referenced THEN 1 ELSE 0

\* The position show() computes for the cell in column j of row i, from the current
\* images: the widths of the cells before it and the heights of the rows above.
ClaimX(i, j) ==
  SumSeq(SubSeq(Distribute([k \in DOMAIN markup[i] |-> get_element_width(markup[i][k])],
                           o.width), 1, j - 1))
ClaimY(i) == SumSeq(SubSeq(row_heights, 1, i - 1))

\* C18: when show() reaches self.c.display(), for every zone cell of the markup the
\* most recent paste of its zone was made with the zone's current image at the
\* cell's currently computed position.
C18_CanvasConsistent ==
  pc = "display" =>
     \A c \in ZoneCells :
        LET z == markup[c[1]][c[2]].key
        IN /\ canvas[z].image = image[z]
           /\ canvas[z].x = ClaimX(c[1], c[2])
           /\ canvas[z].y = ClaimY(c[1])

\* Every cache entry of the shared Zone holds the image image_cb draws for its key.
CacheIntegrity ==
  \A v \in DOMAIN cache[SharedZone] : cache[SharedZone][v].val = v

\* C19 as stated: cache integrity holds also when two threads execute refresh() on
\* the same caching Zone with their statements interleaved.
C19_CacheIntegrityInterleaved == CacheIntegrity

\* C19, amended: cache integrity holds as long as no refresh() call on the Zone has
\* started while another was still running (the calls were sequential).
C19_CacheIntegritySequential == ~overlapped => CacheIntegrity

\* Both threads have refreshed the Zone, one call after the other, and the cache
\* holds two entries.
C19_Witness ==
  /\ ~overlapped
  /\ \A t \in Threads : thr_calls[t] >= 1 /\ thr_pc[t] = "idle"
  /\ Cardinality(DOMAIN cache[SharedZone]) >= 2

\* C20: the bodies of wrapped functions never run in two threads at once; while a
\* thread executes the body of a wrapped function __locked_name__ is that
\* function's name; and when no thread is inside the wrapper __locked_name__ is
\* None.
C20_LockedNameTracksBody ==
  /\ \A t, u \in Threads : (lck_pc[t] = "body" /\ lck_pc[u] = "body") => t = u
  /\ \A t \in Threads : lck_pc[t] = "body" => locked_name = lck_func[t]
  /\ (\A t \in Threads : lck_pc[t] = "idle") => locked_name = None

\* C21: after every call, elapsed is the clock time that passed while the
\* Chronometer was active since the last start()/restart()/stop(), as of the last
\* update() that measured; time passing while paused adds nothing, update() while
\* inactive changes nothing, toggle() flips active, and stop() leaves elapsed = 0
\* and active = false.
C21_ElapsedIsActiveTime ==
  [][ /\ chr_elapsed' = measured'
      /\ (ChrSleep /\ ~chr_active) => chr_elapsed' = chr_elapsed
      /\ (ChrUpdate /\ ~chr_active) => UNCHANGED <<chr_elapsed, chr_active, last_call>>
      /\ ChrToggle => chr_active' = ~chr_active
      /\ ChrStop => (chr_elapsed' = 0 /\ ~chr_active') ]_vars

Next ==
  \/ RefreshOnStart
  \/ ShowCall
  \/ ScanZone
  \/ ScanOther
  \/ RowHeightStep
  \/ RowSpacing
  \/ Widths
  \/ PasteZone
  \/ PasteOther
  \/ EndRow
  \/ Display

Spec == Init /\ [][Next]_vars
====
